---- MODULE Spec2Model ----
(***************************************************************************)
(* Model of the two skills of workspace/skills:                            *)
(*   remote_mgr.py : run_ssh_command and the command-line layer around it  *)
(*   mock_ssh.py   : main, the mock responder                              *)
(*                                                                         *)
(* Representation.  An optional value is a sequence of length 0 (None) or  *)
(* 1.  An argument-vector element or a printed line of the mock is a       *)
(* string.  A text that the program strips or returns in a result (stdout, *)
(* stderr) is a sequence of atoms; an atom is either one whitespace        *)
(* character or a non-empty run of non-whitespace characters.              *)
(***************************************************************************)
EXTENDS Integers, Sequences, FiniteSets, TLC

VARIABLES
    cli,        \* remote_mgr: the command line as given [host, command, user, key]
    remote,     \* what running the ssh client will do in this invocation
    pc,         \* remote_mgr: "start", "waiting", "returned", "exited"
    ssh_cmd,    \* the argument vector handed to subprocess.run
    child,      \* the ssh child process
    spawns,     \* number of child processes started by the call
    attempts,   \* number of calls of subprocess.run made by the call
    elapsed,    \* seconds the caller spent blocked on the child
    outcome,    \* how subprocess.run ended: "none", "completed", "timeout", "error"
    caught,     \* optional: the exception an except clause of run_ssh_command caught
    result,     \* optional: the dictionary run_ssh_command returned
    printed,    \* remote_mgr: what the command-line layer printed, one entry per print
    exitCode,   \* optional: the argument of sys.exit (None: normal termination)
    exitStatus, \* optional: the status the parent of remote_mgr observes
    argv,       \* mock_ssh: sys.argv
    mockPc,     \* mock_ssh: "start", "exited"
    mockOut,    \* mock_ssh: lines printed
    mockExit    \* optional: exit status of mock_ssh

remoteVars == <<cli, remote, pc, ssh_cmd, child, spawns, attempts, elapsed, outcome,
                caught, result, printed, exitCode, exitStatus>>
mockVars == <<argv, mockPc, mockOut, mockExit>>
vars == <<cli, remote, pc, ssh_cmd, child, spawns, attempts, elapsed, outcome,
          caught, result, printed, exitCode, exitStatus, argv, mockPc, mockOut, mockExit>>

----------------------------------------------------------------------------
(* Bounds of the model *)

MaxLen == 3      \* longest text (in atoms) the child writes to a stream
MaxExit == 2     \* small exit codes 0..MaxExit of the child
MaxArgs == 3     \* most command-line arguments given to mock_ssh

(* Optional values *)
None == <<>>
Some(v) == <<v>>
Get(o) == o[1]

----------------------------------------------------------------------------
(* Texts and str.strip() *)

Whitespace == {" ", "\t", "\n", "\r", "\f"}
Alphabet == {" ", "a"}

RECURSIVE TextsOfLen(_)
TextsOfLen(n) ==
    IF n = 0 THEN {<<>>}
    ELSE {Append(t, c) : t \in TextsOfLen(n - 1), c \in Alphabet}

Texts == UNION {TextsOfLen(n) : n \in 0..MaxLen}

RECURSIVE LStrip(_)
LStrip(s) ==
    IF s = <<>> THEN s
    ELSE IF Head(s) \in Whitespace THEN LStrip(Tail(s))
    ELSE s

RECURSIVE RStrip(_)
RStrip(s) ==
    IF s = <<>> THEN s
    ELSE IF s[Len(s)] \in Whitespace THEN RStrip(SubSeq(s, 1, Len(s) - 1))
    ELSE s

(* faulty variant: lstrip() in place of strip() *)
StripLeftOnly(s) == LStrip(s)

Strip(s) == RStrip(LStrip(s))

----------------------------------------------------------------------------
(* run_ssh_command *)

Timeout == 30

Truthy(o) == o # None /\ Get(o) # ""

(* faulty variant: the command is appended before the target *)
SshCmdCommandFirst(host, user, command, key_file) ==
    LET base == <<"ssh", "-o", "StrictHostKeyChecking=no", "-o", "BatchMode=yes">>
        keyed == IF Truthy(key_file) THEN base \o <<"-i", Get(key_file)>> ELSE base
    IN Append(Append(keyed, command), user \o "@" \o host)

SshCmd(host, user, command, key_file) ==
    LET base == <<"ssh", "-o", "StrictHostKeyChecking=no", "-o", "BatchMode=yes">>
        keyed == IF Truthy(key_file) THEN base \o <<"-i", Get(key_file)>> ELSE base
        target == Append(keyed, user \o "@" \o host)
    IN Append(target, command)

CompletedResult(cp) ==
    [success |-> cp.returncode = 0,
     stdout |-> Strip(cp.stdout),
     stderr |-> Strip(cp.stderr),
     returncode |-> cp.returncode]

TimeoutResult ==
    [success |-> FALSE,
     stdout |-> <<>>,
     stderr |-> <<"Connection", " ", "timed", " ", "out.">>,
     returncode |-> -1]

(* str(e).  An OSError made from (errno, strerror, filename) prints as
   "[Errno N] strerror: 'filename'"; a UnicodeDecodeError prints as
   "'enc' codec can't decode byte B in position P: reason"; any other
   exception with one argument prints as that argument. *)
Str(e) ==
    IF e.cls = "OSError"
    THEN <<"[Errno", " ", ToString(e.errno) \o "]", " ">> \o e.strerror
         \o <<":", " ", "'" \o e.filename \o "'">>
    ELSE IF e.cls = "UnicodeDecodeError"
    THEN <<"'" \o e.encoding \o "'", " ", "codec", " ", "can't", " ", "decode",
           " ", "byte", " ", e.byte, " ", "in", " ", "position", " ",
           ToString(e.position) \o ":", " ">> \o e.reason
    ELSE e.msg

(* faulty variant: the failure is reported with the exit code 1 *)
ErrorResultCodeOne(e) ==
    [success |-> FALSE,
     stdout |-> <<>>,
     stderr |-> Str(e),
     returncode |-> 1]

ErrorResult(e) ==
    [success |-> FALSE,
     stdout |-> <<>>,
     stderr |-> Str(e),
     returncode |-> -1]

----------------------------------------------------------------------------
(* Inputs and environment of remote_mgr *)

Hosts == {"server1", "10.0.0.2"}
Commands == {"uptime", "ls -la"}
UserOptions == {None, Some("deploy")}
KeyOptions == {None, Some(""), Some("~/.ssh/id_rsa")}

(* Exit codes of the ssh child as subprocess reports them: 0..255, or -N when
   the child was killed by signal N. *)
ExitCodes == {-9} \cup (0..MaxExit) \cup {255}

(* Exceptions subprocess.run raises before a child exists. *)
SpawnErrors ==
    {[cls |-> "OSError", errno |-> 2,
      strerror |-> <<"No", " ", "such", " ", "file", " ", "or", " ", "directory">>,
      filename |-> "ssh"],
     [cls |-> "OSError", errno |-> 13,
      strerror |-> <<"Permission", " ", "denied">>, filename |-> "ssh"],
     [cls |-> "ValueError", msg |-> <<"embedded", " ", "null", " ", "byte">>]}

(* Exceptions subprocess.run raises after the child has exited: with text=True
   the captured bytes are decoded strictly. *)
DecodeErrors ==
    {[cls |-> "UnicodeDecodeError", encoding |-> "utf-8", byte |-> "0xff",
      position |-> 0, reason |-> <<"invalid", " ", "start", " ", "byte">>]}

NoChild == [state |-> "none", returncode |-> None, stdout |-> <<>>, stderr |-> <<>>]

(* What running the ssh client does: it cannot be started ("nospawn"); it
   exits after duration seconds with decodable output ("exits") or with
   output that is not valid in the locale's encoding ("garbled"); or it is
   still running after Timeout seconds, having written stdout and stderr
   ("hangs"). *)
NoError == [cls |-> "none"]

Behaviour(kind, d, rc, out, err, e) ==
    [kind |-> kind, duration |-> d, returncode |-> rc, stdout |-> out,
     stderr |-> err, error |-> e]

BehavioursOver(texts) ==
    {Behaviour("nospawn", 0, 0, <<>>, <<>>, e) : e \in SpawnErrors}
    \cup {Behaviour("exits", Timeout - 1, rc, out, err, NoError) :
              rc \in ExitCodes, out \in texts, err \in texts}
    \cup {Behaviour("garbled", Timeout - 1, rc, <<>>, <<>>, e) :
              rc \in ExitCodes, e \in DecodeErrors}
    \cup {Behaviour("hangs", Timeout + 1, 0, out, err, NoError) :
              out \in texts, err \in texts}

(* argparse: --user defaults to "root", --key to None *)
ArgUser(c) == IF c.user = None THEN "root" ELSE Get(c.user)

ConnectingBanner(c) ==
    <<"[TuringClaw] Connecting to ", ArgUser(c), "@", c.host, "...">>

----------------------------------------------------------------------------
(* Command-line layer of remote_mgr *)

ReportLines(host, res) ==
    IF res.success
    THEN << <<"[SUCCESS] Command executed on ", host, ":\n">>, res.stdout >>
    ELSE << <<"[ERROR] Failed to execute command on ", host, " (Code: ",
              ToString(res.returncode), "):\n">> >>
         \o (IF res.stdout # <<>> THEN << <<"STDOUT:", " ">> \o res.stdout >> ELSE <<>>)
         \o (IF res.stderr # <<>> THEN << <<"STDERR:", " ">> \o res.stderr >> ELSE <<>>)

(* faulty variant: sys.exit(1) on every failure *)
CliExitCodeOne(res) == IF res.success THEN None ELSE Some(1)

(* The argument of sys.exit; None when sys.exit is not called. *)
CliExitCode(res) == IF res.success THEN None ELSE Some(res.returncode)

(* The status the parent observes: 0 on normal termination, else the low
   eight bits of the argument of sys.exit. *)
ExitStatus(code) == IF code = None THEN 0 ELSE Get(code) % 256

----------------------------------------------------------------------------
(* Actions of remote_mgr *)

(* __main__ up to the call, run_ssh_command up to the started child *)
Spawn ==
    /\ pc = "start"
    /\ remote.kind # "nospawn"
    /\ printed' = Append(printed, ConnectingBanner(cli))
    /\ ssh_cmd' = SshCmd(cli.host, ArgUser(cli), cli.command, cli.key)
    /\ attempts' = attempts + 1
    /\ spawns' = spawns + 1
    /\ child' = [NoChild EXCEPT !.state = "running"]
    /\ pc' = "waiting"
    /\ UNCHANGED <<cli, remote, elapsed, outcome, caught, result, exitCode, exitStatus>>
    /\ UNCHANGED mockVars

(* subprocess.run raises before a child exists: except Exception *)
SpawnFails ==
    /\ pc = "start"
    /\ remote.kind = "nospawn"
    /\ printed' = Append(printed, ConnectingBanner(cli))
    /\ ssh_cmd' = SshCmd(cli.host, ArgUser(cli), cli.command, cli.key)
    /\ attempts' = attempts + 1
    /\ caught' = Some(remote.error)
    /\ result' = Some(ErrorResult(remote.error))
    /\ outcome' = "error"
    /\ pc' = "returned"
    /\ UNCHANGED <<cli, remote, child, spawns, elapsed, exitCode, exitStatus>>
    /\ UNCHANGED mockVars

(* the child exits before the timeout and its output decodes *)
Completes ==
    /\ pc = "waiting"
    /\ remote.kind = "exits"
    /\ remote.duration < Timeout
    /\ child' = [child EXCEPT !.state = "exited",
                              !.returncode = Some(remote.returncode),
                              !.stdout = remote.stdout, !.stderr = remote.stderr]
    /\ result' = Some(CompletedResult([returncode |-> remote.returncode,
                                       stdout |-> remote.stdout,
                                       stderr |-> remote.stderr]))
    /\ elapsed' = remote.duration
    /\ outcome' = "completed"
    /\ pc' = "returned"
    /\ UNCHANGED <<cli, remote, ssh_cmd, spawns, attempts, caught, printed,
                   exitCode, exitStatus>>
    /\ UNCHANGED mockVars

(* the child exits before the timeout and its output does not decode:
   subprocess.run raises, except Exception *)
DecodeFails ==
    /\ pc = "waiting"
    /\ remote.kind = "garbled"
    /\ remote.duration < Timeout
    /\ child' = [child EXCEPT !.state = "exited",
                              !.returncode = Some(remote.returncode)]
    /\ caught' = Some(remote.error)
    /\ result' = Some(ErrorResult(remote.error))
    /\ elapsed' = remote.duration
    /\ outcome' = "error"
    /\ pc' = "returned"
    /\ UNCHANGED <<cli, remote, ssh_cmd, spawns, attempts, printed, exitCode, exitStatus>>
    /\ UNCHANGED mockVars

(* faulty variant: the output captured before the timeout is returned *)
TimesOutKeepsOutput ==
    /\ pc = "waiting"
    /\ remote.duration > Timeout
    /\ child' = [child EXCEPT !.state = "killed", !.returncode = Some(-9),
                              !.stdout = remote.stdout, !.stderr = remote.stderr]
    /\ caught' = Some([cls |-> "TimeoutExpired"])
    /\ result' = Some([TimeoutResult EXCEPT !.stdout = Strip(remote.stdout)])
    /\ elapsed' = Timeout
    /\ outcome' = "timeout"
    /\ pc' = "returned"
    /\ UNCHANGED <<cli, remote, ssh_cmd, spawns, attempts, printed, exitCode, exitStatus>>
    /\ UNCHANGED mockVars

(* faulty variant: a timeout starts the command again *)
TimesOutRetries ==
    /\ pc = "waiting"
    /\ remote.duration > Timeout
    /\ attempts' = attempts + 1
    /\ spawns' = spawns + 1
    /\ child' = [NoChild EXCEPT !.state = "running"]
    /\ UNCHANGED <<cli, remote, pc, ssh_cmd, elapsed, outcome, caught, result, printed,
                   exitCode, exitStatus>>
    /\ UNCHANGED mockVars

(* faulty variant: subprocess.run without timeout= *)
WaitsForever ==
    /\ pc = "waiting"
    /\ remote.duration > Timeout
    /\ UNCHANGED vars

(* the child is still running after Timeout seconds: subprocess.run kills and
   reaps it and raises TimeoutExpired, except subprocess.TimeoutExpired *)
TimesOut ==
    /\ pc = "waiting"
    /\ remote.duration > Timeout
    /\ child' = [child EXCEPT !.state = "killed", !.returncode = Some(-9),
                              !.stdout = remote.stdout, !.stderr = remote.stderr]
    /\ caught' = Some([cls |-> "TimeoutExpired"])
    /\ result' = Some(TimeoutResult)
    /\ elapsed' = Timeout
    /\ outcome' = "timeout"
    /\ pc' = "returned"
    /\ UNCHANGED <<cli, remote, ssh_cmd, spawns, attempts, printed, exitCode, exitStatus>>
    /\ UNCHANGED mockVars

(* __main__ after the call *)
Report ==
    /\ pc = "returned"
    /\ printed' = printed \o ReportLines(cli.host, Get(result))
    /\ exitCode' = CliExitCode(Get(result))
    /\ exitStatus' = Some(ExitStatus(CliExitCode(Get(result))))
    /\ pc' = "exited"
    /\ UNCHANGED <<cli, remote, ssh_cmd, child, spawns, attempts, elapsed, outcome,
                   caught, result>>
    /\ UNCHANGED mockVars

----------------------------------------------------------------------------
(* mock_ssh.main *)

MockWords == {"server1", "uptime", "ls -la", "10.0.0.2"}

RECURSIVE ArgsOfLen(_)
ArgsOfLen(n) ==
    IF n = 0 THEN {<<>>}
    ELSE {Append(a, w) : a \in ArgsOfLen(n - 1), w \in MockWords}

MockArgvs == {<<"mock_ssh.py">> \o a : a \in UNION {ArgsOfLen(n) : n \in 0..MaxArgs}}

UsageLine == "Usage: python mock_ssh.py <host> <cmd>"

(* faulty variant: one argument too many is required *)
NeedsUsageThree(a) == Len(a) <= 3

NeedsUsage(a) == Len(a) < 3

(* faulty variant: the test of the command is inverted *)
MockResponseInverted(cmd) ==
    IF cmd # "uptime"
    THEN " 10:00:00 up 10 days,  2:30,  1 user,  load average: 0.00, 0.01, 0.05"
    ELSE "Command executed successfully."

MockResponse(cmd) ==
    IF cmd = "uptime"
    THEN " 10:00:00 up 10 days,  2:30,  1 user,  load average: 0.00, 0.01, 0.05"
    ELSE "Command executed successfully."

MockLines(host, cmd) ==
    <<"[SSH Connected to " \o host \o "]", "[Executing]: " \o cmd, MockResponse(cmd)>>

MockMain ==
    /\ mockPc = "start"
    /\ IF NeedsUsage(argv)
       THEN /\ mockOut' = Append(mockOut, UsageLine)
            /\ mockExit' = Some(1)
       ELSE /\ mockOut' = mockOut \o MockLines(argv[2], argv[3])
            /\ mockExit' = Some(0)
    /\ mockPc' = "exited"
    /\ UNCHANGED argv
    /\ UNCHANGED remoteVars

----------------------------------------------------------------------------
(* Specifications *)

RemoteIdle ==
    /\ pc = "start"
    /\ ssh_cmd = <<>>
    /\ child = NoChild
    /\ spawns = 0
    /\ attempts = 0
    /\ elapsed = 0
    /\ outcome = "none"
    /\ caught = None
    /\ result = None
    /\ printed = <<>>
    /\ exitCode = None
    /\ exitStatus = None

MockIdle ==
    /\ mockPc = "start"
    /\ mockOut = <<>>
    /\ mockExit = None

Init ==
    /\ cli \in [host : Hosts, command : Commands, user : UserOptions, key : KeyOptions]
    /\ remote \in BehavioursOver(Texts)
    /\ RemoteIdle
    /\ argv = <<"mock_ssh.py">>
    /\ MockIdle

Next == Spawn \/ SpawnFails \/ Completes \/ DecodeFails \/ TimesOut \/ Report

Spec == Init /\ [][Next]_vars

(* The operating system runs the child and the timer of subprocess.run, and
   the interpreter runs the program: a step that can be taken is taken. *)
FairTexts == {<<>>, <<" ", "a", " ">>}

FairInit ==
    /\ cli \in [host : Hosts, command : Commands, user : UserOptions, key : KeyOptions]
    /\ remote \in BehavioursOver(FairTexts)
    /\ RemoteIdle
    /\ argv = <<"mock_ssh.py">>
    /\ MockIdle

FairSpec == FairInit /\ [][Next]_vars /\ WF_vars(Next)

MockInit ==
    /\ cli = [host |-> "server1", command |-> "uptime", user |-> None, key |-> None]
    /\ remote = Behaviour("exits", 0, 0, <<>>, <<>>, NoError)
    /\ RemoteIdle
    /\ argv \in MockArgvs
    /\ MockIdle

MockNext == MockMain

MockSpec == MockInit /\ [][MockNext]_vars

----------------------------------------------------------------------------
(* Properties *)

Returned == pc \in {"returned", "exited"}

IsSpace(c) == c \in {" ", "\t", "\n", "\r", "\f"}

NoSurroundingSpace(t) == t = <<>> \/ (~IsSpace(t[1]) /\ ~IsSpace(t[Len(t)]))

(* t is raw with a run of whitespace cut from each end and nothing else *)
TrimOf(t, raw) ==
    \E i \in 0..Len(raw), j \in 0..Len(raw) :
        /\ i + j <= Len(raw)
        /\ \A k \in 1..i : IsSpace(raw[k])
        /\ \A k \in (Len(raw) - j + 1)..Len(raw) : IsSpace(raw[k])
        /\ t = SubSeq(raw, i + 1, Len(raw) - j)

(* C1: whenever the ssh child has exited within the timeout with exit code N,
   the result returned has returncode N, and success exactly when N is 0. *)
C1_ExitCodeReported ==
    (Returned /\ child.state = "exited" /\ elapsed < Timeout)
        => /\ Get(result).returncode = Get(child.returncode)
           /\ Get(result).success = (Get(child.returncode) = 0)

(* C2: when the child does not finish within the 30 seconds, the result is
   exactly success false, returncode -1, empty stdout and the stderr
   "Connection timed out.", whatever the arguments and whatever the child
   had written. *)
C2_TimeoutResult ==
    (Returned /\ remote.kind # "nospawn" /\ remote.duration > 30)
        => result = Some([success |-> FALSE, returncode |-> -1, stdout |-> <<>>,
                          stderr |-> <<"Connection", " ", "timed", " ", "out.">>])

C2_Witness ==
    /\ pc = "returned"
    /\ outcome = "timeout"
    /\ child.stdout # <<>>
    /\ cli.key = Some("~/.ssh/id_rsa")

(* C3: when subprocess.run fails with an exception other than the timeout,
   the call returns (it does not raise) a result with success false,
   returncode -1, empty stdout and the stringified exception as stderr. *)
C3_FailureResult ==
    (caught # None /\ Get(caught).cls # "TimeoutExpired")
        => /\ Returned
           /\ result # None
           /\ Get(result).success = FALSE
           /\ Get(result).returncode = -1
           /\ Get(result).stdout = <<>>
           /\ Get(result).stderr = Str(Get(caught))
           /\ (Get(caught).cls = "OSError" /\ Get(caught).errno = 2)
                 => Get(result).stderr =
                        <<"[Errno", " ", "2]", " ", "No", " ", "such", " ", "file",
                          " ", "or", " ", "directory", ":", " ", "'ssh'">>

C3_Witness ==
    /\ pc = "returned"
    /\ caught # None
    /\ Get(caught).cls = "OSError"
    /\ Get(caught).errno = 2
    /\ spawns = 0

(* C4: the command-line layer ends without sys.exit (status 0) when the result
   has success true, and calls sys.exit with the result's returncode on every
   failure: the child's non-zero exit code after a completed run, -1 after a
   timeout or an exception; the status of a failure is never 0. *)
C4_ExitCode ==
    pc = "exited"
        => /\ Get(result).success => (exitCode = None /\ exitStatus = Some(0))
           /\ ~Get(result).success =>
                 /\ exitCode = Some(Get(result).returncode)
                 /\ exitStatus # Some(0)
           /\ (outcome = "completed" /\ Get(child.returncode) # 0)
                 => exitCode = child.returncode
           /\ outcome \in {"timeout", "error"} => exitCode = Some(-1)

C4_Witness ==
    /\ pc = "exited"
    /\ outcome = "completed"
    /\ child.returncode = Some(2)
    /\ exitCode = Some(2)

(* C5: a call makes one attempt: subprocess.run is called at most once and at
   most one child is started, whatever the outcome, and when the call has
   returned the one attempt has been made and its child is no longer
   running. *)
C5_OneAttempt ==
    /\ attempts <= 1
    /\ spawns <= attempts
    /\ pc = "waiting" => (attempts = 1 /\ spawns = 1 /\ child.state = "running")
    /\ Returned => (attempts = 1 /\ child.state \in {"none", "exited", "killed"})
    /\ (Returned /\ child.state = "none") => spawns = 0

C5_Witness ==
    /\ pc = "exited"
    /\ outcome = "timeout"
    /\ attempts = 1
    /\ spawns = 1

(* C6: every call returns: the wait on the child is the only place the call
   blocks, it lasts at most the 30 seconds, and when the call has returned no
   child of it is running (after a timeout the child has been killed). *)
C6_Returns ==
    /\ [](Returned => (elapsed <= 30 /\ child.state # "running"))
    /\ [](outcome = "timeout" => child.state = "killed")
    /\ (pc = "start") ~> (pc = "returned")
    /\ (pc = "waiting") ~> (pc = "returned")

C6_Witness ==
    /\ pc = "returned"
    /\ outcome = "timeout"
    /\ child.state = "killed"
    /\ elapsed = 30

(* C7: the argument vector is "ssh", -o StrictHostKeyChecking=no,
   -o BatchMode=yes, then "-i" and the key path when a key path is given and
   nothing when none is, then user@host, then the command as the last
   argument. *)
C7_ArgumentVector ==
    ssh_cmd # <<>>
        => LET n == Len(ssh_cmd)
               keyGiven == cli.key # None /\ Get(cli.key) # ""
               user == IF cli.user = None THEN "root" ELSE Get(cli.user)
           IN /\ SubSeq(ssh_cmd, 1, 5) =
                    <<"ssh", "-o", "StrictHostKeyChecking=no", "-o", "BatchMode=yes">>
              /\ keyGiven => (n = 9 /\ ssh_cmd[6] = "-i" /\ ssh_cmd[7] = Get(cli.key))
              /\ ~keyGiven => n = 7
              /\ ssh_cmd[n - 1] = user \o "@" \o cli.host
              /\ ssh_cmd[n] = cli.command
              /\ cli.key = None => \A k \in 1..n : ssh_cmd[k] # "-i"

C7_Witness ==
    /\ pc = "waiting"
    /\ cli.key = Some("~/.ssh/id_rsa")
    /\ cli.user = None
    /\ Len(ssh_cmd) = 9

(* C8: with at least two arguments the mock prints three lines, the connection
   banner with the host, the execution banner with the command, and the uptime
   report when the command is "uptime" and "Command executed successfully."
   otherwise, and exits with status 0. *)
C8_MockOutput ==
    (mockPc = "exited" /\ Len(argv) >= 3)
        => /\ Len(mockOut) = 3
           /\ mockOut[1] = "[SSH Connected to " \o argv[2] \o "]"
           /\ mockOut[2] = "[Executing]: " \o argv[3]
           /\ argv[3] = "uptime" =>
                 mockOut[3] =
                     " 10:00:00 up 10 days,  2:30,  1 user,  load average: 0.00, 0.01, 0.05"
           /\ argv[3] # "uptime" => mockOut[3] = "Command executed successfully."
           /\ (argv[2] = "server1" /\ argv[3] = "ls -la")
                 => mockOut = <<"[SSH Connected to server1]", "[Executing]: ls -la",
                                "Command executed successfully.">>
           /\ mockExit = Some(0)

C8_Witness ==
    /\ mockPc = "exited"
    /\ argv = <<"mock_ssh.py", "server1", "uptime">>
    /\ Len(mockOut) = 3

(* C9: with no or one argument the mock prints the usage text and nothing
   else and exits with status 1; with two or more it does not print the usage
   text and exits with status 0. *)
C9_MockUsage ==
    mockPc = "exited"
        => /\ Len(argv) <= 2 =>
                 /\ mockOut = <<"Usage: python mock_ssh.py <host> <cmd>">>
                 /\ mockExit = Some(1)
           /\ Len(argv) >= 3 =>
                 /\ \A k \in 1..Len(mockOut) :
                        mockOut[k] # "Usage: python mock_ssh.py <host> <cmd>"
                 /\ mockExit = Some(0)

C9_Witness ==
    /\ mockPc = "exited"
    /\ Len(argv) = 2
    /\ mockExit = Some(1)

(* C10: stdout and stderr of every result have no whitespace at either end;
   after a completed run each is the captured text with the whitespace cut
   from its ends and the rest unchanged, so stripping it again changes
   nothing; after a timeout or an exception stdout is empty. *)
C10_Stripped ==
    result # None
        => /\ NoSurroundingSpace(Get(result).stdout)
           /\ NoSurroundingSpace(Get(result).stderr)
           /\ outcome = "completed" =>
                 /\ TrimOf(Get(result).stdout, child.stdout)
                 /\ TrimOf(Get(result).stderr, child.stderr)
                 /\ Strip(Get(result).stdout) = Get(result).stdout
                 /\ Strip(Get(result).stderr) = Get(result).stderr
           /\ outcome \in {"timeout", "error"} => Get(result).stdout = <<>>

C10_Witness ==
    /\ pc = "returned"
    /\ outcome = "completed"
    /\ child.stdout = <<" ", "a", " ">>
    /\ Get(result).stdout = <<"a">>

====
